---------------------------- MODULE Spec2Model ----------------------------
(***************************************************************************)
(* Model of the Lumina lexer (src/Compiler/lexer.py).                      *)
(*                                                                         *)
(* A source buffer is a sequence of one-character strings.  A lexeme is a  *)
(* subsequence of the buffer.  The scanner rules of tokenize() are         *)
(* modelled one operator per named alternative of the master regex, each   *)
(* returning the length of its match at a position (0 when it does not     *)
(* match), and tried in declaration order as Python's alternation does.    *)
(***************************************************************************)
EXTENDS Integers, Sequences, FiniteSets, TLC

(***************************************************************************)
(* Bounds of the model.                                                    *)
(***************************************************************************)
MaxFrags == 3

MaxPairFrags == 2

\* the calls of tokenize() followed on one source text
MaxRuns == 2

\* the lexemes of a phrase: context lexemes and then one lexeme of any kind
MaxWords == 3

\* the blanks, line breaks and comments between a keyword and a word
MaxGaps == 2

\* the fragments of a buffer of words, digits and hyphens
MaxHyphenFrags == 4

\* the tabs ever created in a session of the editor
MaxTabs == 2

\* the console lines after which no handler that logs is run
MaxConsole == 4

(***************************************************************************)
(* Characters.                                                             *)
(***************************************************************************)
LowerSeq ==
  <<"a", "b", "c", "d", "e", "f", "g", "h", "i", "j", "k", "l", "m",
    "n", "o", "p", "q", "r", "s", "t", "u", "v", "w", "x", "y", "z">>

UpperSeq ==
  <<"A", "B", "C", "D", "E", "F", "G", "H", "I", "J", "K", "L", "M",
    "N", "O", "P", "Q", "R", "S", "T", "U", "V", "W", "X", "Y", "Z">>

Lower == {LowerSeq[i] : i \in 1..26}

Upper == {UpperSeq[i] : i \in 1..26}

Digit == {"0", "1", "2", "3", "4", "5", "6", "7", "8", "9"}

\* [a-zA-Z_]
WordStart == Lower \cup Upper \cup {"_"}

\* \w over the modelled (ASCII) alphabet
WordChar == WordStart \cup Digit

\* [+\-*/%=!><(){}\[\],;:\.\?]
SymbolChar ==
  {"+", "-", "*", "/", "%", "=", "!", ">", "<", "(", ")", "{", "}",
   "[", "]", ",", ";", ":", ".", "?"}

\* [@#]
IllegalChar == {"@", "#"}

\* Python's None; no lexeme is empty, so the empty sequence is free.
None == <<>>

\* str.isupper() of one character
isupper(c) == c \in Upper

\* str.lower() of one character
lower_char(c) ==
  IF c \in Upper THEN LowerSeq[CHOOSE i \in 1..26 : UpperSeq[i] = c] ELSE c

\* value.lower()
lower(value) == [i \in 1..Len(value) |-> lower_char(value[i])]

\* '_' in value
has_underscore(value) == \E i \in 1..Len(value) : value[i] = "_"

\* any(c.isupper() for c in value)
any_upper(value) == \E i \in 1..Len(value) : isupper(value[i])

(***************************************************************************)
(* Language sets of LuminaLexer.__init__.                                  *)
(***************************************************************************)
keywords ==
  {<<"f","u","n","c">>, <<"m","a","i","n">>, <<"l","e","t">>, <<"v","a","r">>,
   <<"t","y","p","e">>, <<"s","t","r","u","c","t">>, <<"v","o","i","d">>,
   <<"i","n","t">>, <<"c","h","a","r">>, <<"b","o","o","l">>,
   <<"d","o","u","b","l","e">>, <<"f","l","o","a","t">>,
   <<"s","t","r","i","n","g">>, <<"r","e","q","u","i","r","e","s">>,
   <<"e","n","s","u","r","e","s">>, <<"i","n","v","a","r","i","a","n","t">>,
   <<"o","l","d">>, <<"r","e","s","u","l","t">>, <<"i","f">>,
   <<"e","l","s","e">>, <<"s","w","i","t","c","h">>, <<"c","a","s","e">>,
   <<"d","e","f","a","u","l","t">>, <<"b","r","e","a","k">>,
   <<"w","h","i","l","e">>, <<"d","o">>, <<"f","o","r">>,
   <<"r","e","t","u","r","n">>, <<"d","i","s","p","l","a","y">>,
   <<"r","e","a","d">>}

reserved_words == {<<"n","u","l","l">>}

noise_words == {<<"t","h","a","t">>, <<"t","h","e">>, <<"i","s">>}

\* the table with the noise words of requires and ensures exchanged
valid_noise_contexts_shifted(last_keyword) ==
  CASE last_keyword = <<"r","e","q","u","i","r","e","s">> -> <<"t","h","e">>
    [] last_keyword = <<"e","n","s","u","r","e","s">> -> <<"t","h","a","t">>
    [] last_keyword = <<"t","y","p","e">> -> <<"i","s">>
    [] OTHER -> None

\* valid_noise_contexts.get(last_keyword); None when there is no entry
valid_noise_contexts(last_keyword) ==
  CASE last_keyword = <<"r","e","q","u","i","r","e","s">> -> <<"t","h","a","t">>
    [] last_keyword = <<"e","n","s","u","r","e","s">> -> <<"t","h","e">>
    [] last_keyword = <<"t","y","p","e">> -> <<"i","s">>
    [] OTHER -> None

\* the table without the entry of elseif
invalid_keywords_short ==
  {<<"f","u","n","c","t","i","o","n">>, <<"p","r","i","n","t">>}

\* the keys of invalid_keywords
invalid_keywords ==
  {<<"f","u","n","c","t","i","o","n">>, <<"e","l","s","e","i","f">>,
   <<"p","r","i","n","t">>}

\* invalid_keywords[value], the message of a rejected spelling
invalid_keyword_message(value) ==
  CASE value = <<"f","u","n","c","t","i","o","n">> -> "Invalid keyword. Use 'func'."
    [] value = <<"e","l","s","e","i","f">> -> "Invalid keyword. Use 'else if'."
    [] OTHER -> "Invalid keyword. Use 'display'."

primitive_types ==
  {<<"i","n","t">>, <<"c","h","a","r">>, <<"b","o","o","l">>,
   <<"d","o","u","b","l","e">>, <<"f","l","o","a","t">>,
   <<"s","t","r","i","n","g">>}

bool_literals == {<<"t","r","u","e">>, <<"f","a","l","s","e">>}

strict_predecessors ==
  {<<"f","u","n","c">>, <<"s","t","r","u","c","t">>, <<"t","y","p","e">>}
    \cup primitive_types

contract_keywords ==
  {<<"r","e","q","u","i","r","e","s">>, <<"e","n","s","u","r","e","s">>,
   <<"i","n","v","a","r","i","a","n","t">>}

(***************************************************************************)
(* Scanner: the alternatives of master_regex.                              *)
(***************************************************************************)
\* the character at position p, "" past either end of the buffer
At(s, p) == IF p >= 1 /\ p <= Len(s) THEN s[p] ELSE ""

\* s[p .. q-1]
Slice(s, p, q) == [i \in 1..(q - p) |-> s[p + i - 1]]

\* the first position q >= p whose character is not in class C (greedy C*)
RunEnd(s, p, C) ==
  CHOOSE q \in p..(Len(s) + 1) :
    /\ At(s, q) \notin C
    /\ \A r \in p..(q - 1) : s[r] \in C

\* the first position q >= p whose character is in C, Len(s)+1 when none
FindChar(s, p, C) ==
  CHOOSE q \in p..(Len(s) + 1) :
    /\ (q <= Len(s) => s[q] \in C)
    /\ \A r \in p..(q - 1) : s[r] \notin C

\* a fixed string at p
Lit(s, p, lit) ==
  IF \A i \in 1..Len(lit) : At(s, p + i - 1) = lit[i] THEN Len(lit) ELSE 0

\* /\*[\s\S]*?\*/   the first "*/" at or after p+2 closes the comment
M_COMMENT_MULTI(s, p) ==
  IF Lit(s, p, <<"/", "*">>) = 0 THEN 0
  ELSE LET closers == {q \in (p + 2)..(Len(s) - 1) :
                         s[q] = "*" /\ s[q + 1] = "/"}
       IN IF closers = {} THEN 0
          ELSE (CHOOSE q \in closers : \A r \in closers : q <= r) + 2 - p

\* //.*   up to, not including, the next newline
M_COMMENT_SINGLE(s, p) ==
  IF Lit(s, p, <<"/", "/">>) = 0 THEN 0
  ELSE FindChar(s, p + 2, {"\n"}) - p

\* /\*[\s\S]*   everything to the end of the buffer
M_ERR_UNTERM_CMT(s, p) ==
  IF Lit(s, p, <<"/", "*">>) = 0 THEN 0 ELSE Len(s) + 1 - p

\* the end of the greedy (\.\d+)* starting at q
RECURSIVE DotGroupsEnd(_, _)
DotGroupsEnd(s, q) ==
  IF At(s, q) = "." /\ At(s, q + 1) \in Digit
  THEN DotGroupsEnd(s, RunEnd(s, q + 1, Digit))
  ELSE q

\* \d+\.\d+(\.\d+)+
M_ERR_FLOAT(s, p) ==
  IF At(s, p) \notin Digit THEN 0
  ELSE LET d1 == RunEnd(s, p, Digit)
       IN IF ~(At(s, d1) = "." /\ At(s, d1 + 1) \in Digit) THEN 0
          ELSE LET d2 == RunEnd(s, d1 + 1, Digit)
                   e  == DotGroupsEnd(s, d2)
               IN IF e = d2 THEN 0 ELSE e - p

\* \d+[a-zA-Z_]+
M_ERR_ID_DIGIT(s, p) ==
  IF At(s, p) \notin Digit THEN 0
  ELSE LET d == RunEnd(s, p, Digit)
       IN IF At(s, d) \notin WordStart THEN 0
          ELSE RunEnd(s, d, WordStart) - p

\* [a-zA-Z_]\w*-[a-zA-Z_]\w*   a digit after the hyphen ends the match
M_ERR_ID_HYPHEN_no_digit(s, p) ==
  IF At(s, p) \notin WordStart THEN 0
  ELSE LET w == RunEnd(s, p + 1, WordChar)
       IN IF At(s, w) = "-" /\ At(s, w + 1) \in WordStart
          THEN RunEnd(s, w + 1, WordChar) - p
          ELSE 0

\* [a-zA-Z_]\w*-\w+
M_ERR_ID_HYPHEN(s, p) ==
  IF At(s, p) \notin WordStart THEN 0
  ELSE LET w == RunEnd(s, p + 1, WordChar)
       IN IF At(s, w) = "-" /\ At(s, w + 1) \in WordChar
          THEN RunEnd(s, w + 1, WordChar) - p
          ELSE 0

\* '(\\.|[^'\\])'     "." does not match a newline, [^'\\] does
M_CHAR_LITERAL(s, p) ==
  IF At(s, p) # "'" THEN 0
  ELSE IF /\ At(s, p + 1) = "\\"
          /\ p + 2 <= Len(s) /\ s[p + 2] # "\n"
          /\ At(s, p + 3) = "'"
       THEN 4
       ELSE IF /\ p + 1 <= Len(s) /\ s[p + 1] \notin {"'", "\\"}
               /\ At(s, p + 2) = "'"
            THEN 3
            ELSE 0

\* '[^']*'
M_ERR_SINGLE_QUOTE(s, p) ==
  IF At(s, p) # "'" THEN 0
  ELSE LET q == FindChar(s, p + 1, {"'"})
       IN IF q <= Len(s) THEN q + 1 - p ELSE 0

\* the position of the quote closing (\\.|[^"\\])*" scanned from q, 0 if
\* the scan fails (end of buffer, or a backslash before a newline or the end)
RECURSIVE StringClose(_, _)
StringClose(s, q) ==
  IF q > Len(s) THEN 0
  ELSE IF s[q] = "\"" THEN q
  ELSE IF s[q] = "\\"
       THEN IF q + 1 <= Len(s) /\ s[q + 1] # "\n"
            THEN StringClose(s, q + 2)
            ELSE 0
  ELSE StringClose(s, q + 1)

\* "(\\.|[^"\\])*"
M_STRING_LITERAL(s, p) ==
  IF At(s, p) # "\"" THEN 0
  ELSE LET c == StringClose(s, p + 1)
       IN IF c = 0 THEN 0 ELSE c + 1 - p

\* "[^"\n]*
M_UNTERM_STRING(s, p) ==
  IF At(s, p) # "\"" THEN 0
  ELSE FindChar(s, p + 1, {"\"", "\n"}) - p

\* \d+\.\d+
M_FLOAT_LITERAL(s, p) ==
  IF At(s, p) \notin Digit THEN 0
  ELSE LET d1 == RunEnd(s, p, Digit)
       IN IF At(s, d1) = "." /\ At(s, d1 + 1) \in Digit
          THEN RunEnd(s, d1 + 1, Digit) - p
          ELSE 0

\* \d+
M_INTEGER_LITERAL(s, p) ==
  IF At(s, p) \notin Digit THEN 0 ELSE RunEnd(s, p, Digit) - p

\* --(?=\d)
M_ERR_OP_DBL_DASH(s, p) ==
  IF Lit(s, p, <<"-", "-">>) = 2 /\ At(s, p + 2) \in Digit THEN 2 ELSE 0

\* a one-character class
M_CLASS(s, p, C) == IF At(s, p) \in C THEN 1 ELSE 0

\* [a-zA-Z_][a-zA-Z0-9_]*
M_WORD(s, p) ==
  IF At(s, p) \notin WordStart THEN 0 ELSE RunEnd(s, p + 1, WordChar) - p

\* [ \t]+
M_SKIP(s, p) ==
  IF At(s, p) \notin {" ", "\t"} THEN 0 ELSE RunEnd(s, p, {" ", "\t"}) - p

\* .   any character but a newline
M_MISMATCH(s, p) == IF p <= Len(s) /\ s[p] # "\n" THEN 1 ELSE 0

\* the rule names in declaration order
rules ==
  <<"COMMENT_MULTI", "COMMENT_SINGLE", "ERR_UNTERM_CMT",
    "ERR_FLOAT", "ERR_ID_DIGIT", "ERR_ID_HYPHEN",
    "CHAR_LITERAL", "ERR_SINGLE_QUOTE", "STRING_LITERAL", "UNTERM_STRING",
    "FLOAT_LITERAL", "INTEGER_LITERAL",
    "ERR_OP_TRIPLE_EQ", "ERR_OP_REL_REV", "ERR_OP_DBL_NOT", "ERR_OP_DBL_DASH",
    "OP_ARROW", "OP_EQ", "OP_NEQ", "OP_GE", "OP_LE", "OP_AND", "OP_OR",
    "OP_INC", "OP_DEC", "OP_ADD_ASS", "OP_SUB_ASS", "OP_MUL_ASS",
    "OP_DIV_ASS", "OP_MOD_ASS", "OP_SHL", "OP_SHR",
    "OP_BIT_AND", "OP_BIT_OR", "OP_BIT_XOR", "OP_BIT_NOT",
    "SYMBOL", "ERR_ILLEGAL_CHAR", "WORD", "NEWLINE", "SKIP", "MISMATCH">>

\* the length matched by the named rule at p, 0 when it does not match
rule_match(name, s, p) ==
  CASE name = "COMMENT_MULTI"    -> M_COMMENT_MULTI(s, p)
    [] name = "COMMENT_SINGLE"   -> M_COMMENT_SINGLE(s, p)
    [] name = "ERR_UNTERM_CMT"   -> M_ERR_UNTERM_CMT(s, p)
    [] name = "ERR_FLOAT"        -> M_ERR_FLOAT(s, p)
    [] name = "ERR_ID_DIGIT"     -> M_ERR_ID_DIGIT(s, p)
    [] name = "ERR_ID_HYPHEN"    -> M_ERR_ID_HYPHEN(s, p)
    [] name = "CHAR_LITERAL"     -> M_CHAR_LITERAL(s, p)
    [] name = "ERR_SINGLE_QUOTE" -> M_ERR_SINGLE_QUOTE(s, p)
    [] name = "STRING_LITERAL"   -> M_STRING_LITERAL(s, p)
    [] name = "UNTERM_STRING"    -> M_UNTERM_STRING(s, p)
    [] name = "FLOAT_LITERAL"    -> M_FLOAT_LITERAL(s, p)
    [] name = "INTEGER_LITERAL"  -> M_INTEGER_LITERAL(s, p)
    [] name = "ERR_OP_TRIPLE_EQ" -> Lit(s, p, <<"=", "=", "=">>)
    [] name = "ERR_OP_REL_REV"   -> Lit(s, p, <<"=", "<">>)
    [] name = "ERR_OP_DBL_NOT"   -> Lit(s, p, <<"!", "!">>)
    [] name = "ERR_OP_DBL_DASH"  -> M_ERR_OP_DBL_DASH(s, p)
    [] name = "OP_ARROW"         -> Lit(s, p, <<"-", ">">>)
    [] name = "OP_EQ"            -> Lit(s, p, <<"=", "=">>)
    [] name = "OP_NEQ"           -> Lit(s, p, <<"!", "=">>)
    [] name = "OP_GE"            -> Lit(s, p, <<">", "=">>)
    [] name = "OP_LE"            -> Lit(s, p, <<"<", "=">>)
    [] name = "OP_AND"           -> Lit(s, p, <<"&", "&">>)
    [] name = "OP_OR"            -> Lit(s, p, <<"|", "|">>)
    [] name = "OP_INC"           -> Lit(s, p, <<"+", "+">>)
    [] name = "OP_DEC"           -> Lit(s, p, <<"-", "-">>)
    [] name = "OP_ADD_ASS"       -> Lit(s, p, <<"+", "=">>)
    [] name = "OP_SUB_ASS"       -> Lit(s, p, <<"-", "=">>)
    [] name = "OP_MUL_ASS"       -> Lit(s, p, <<"*", "=">>)
    [] name = "OP_DIV_ASS"       -> Lit(s, p, <<"/", "=">>)
    [] name = "OP_MOD_ASS"       -> Lit(s, p, <<"%", "=">>)
    [] name = "OP_SHL"           -> Lit(s, p, <<"<", "<">>)
    [] name = "OP_SHR"           -> Lit(s, p, <<">", ">">>)
    [] name = "OP_BIT_AND"       -> Lit(s, p, <<"&">>)
    [] name = "OP_BIT_OR"        -> Lit(s, p, <<"|">>)
    [] name = "OP_BIT_XOR"       -> Lit(s, p, <<"^">>)
    [] name = "OP_BIT_NOT"       -> Lit(s, p, <<"~">>)
    [] name = "SYMBOL"           -> M_CLASS(s, p, SymbolChar)
    [] name = "ERR_ILLEGAL_CHAR" -> M_CLASS(s, p, IllegalChar)
    [] name = "WORD"             -> M_WORD(s, p)
    [] name = "NEWLINE"          -> Lit(s, p, <<"\n">>)
    [] name = "SKIP"             -> M_SKIP(s, p)
    [] OTHER                     -> M_MISMATCH(s, p)

\* the index of the first rule, from the i-th on, that matches at p
RECURSIVE first_rule(_, _, _)
first_rule(i, s, p) ==
  IF rule_match(rules[i], s, p) > 0 THEN i ELSE first_rule(i + 1, s, p)

\* the match object with the lexeme of a run of blanks not captured
Match_no_blank(kind, s, p, next) ==
  [kind |-> kind,
   value |-> IF kind = "SKIP" THEN <<>> ELSE Slice(s, p, next),
   next |-> next]

\* the match object: m.lastgroup, m.group(kind) and m.end()
Match(kind, s, p, next) ==
  [kind |-> kind, value |-> Slice(s, p, next), next |-> next]

\* the match of the i-th rule at p
rule_at(i, s, p) == Match(rules[i], s, p, p + rule_match(rules[i], s, p))

\* one match of re.finditer(master_regex, source_code) at position p:
\* the first alternative, in declaration order, that matches there
master_regex(s, p) == rule_at(first_rule(1, s, p), s, p)

(***************************************************************************)
(* difflib.get_close_matches(value, all_reserved, n=1, cutoff=0.8).        *)
(* A ratio 2.0*matches/length is kept as the pair (matches, length) and    *)
(* compared by cross-multiplication, which agrees with the floating-point  *)
(* comparison for the lengths that occur.                                  *)
(***************************************************************************)
\* cutoff=0.8 as the fraction CutoffNum/CutoffDen
CutoffNum == 4

CutoffDen == 5

\* list(self.keywords) + list(self.reserved_words) + ['true', 'false']
all_reserved == keywords \cup reserved_words \cup bool_literals

\* _calculate_ratio(matches, length) >= cutoff
ratio_ok(matches, length) == 2 * matches * CutoffDen >= CutoffNum * length

\* the number of positions of w holding character c
count_of(w, c) == Cardinality({i \in 1..Len(w) : w[i] = c})

Min2(x, y) == IF x <= y THEN x ELSE y

RECURSIVE SumOver(_, _)
SumOver(S, f) ==
  IF S = {} THEN 0
  ELSE LET c == CHOOSE c \in S : TRUE IN f[c] + SumOver(S \ {c}, f)

\* SequenceMatcher.quick_ratio: the size of the multiset intersection
quick_matches(a, b) ==
  LET chars == {a[i] : i \in 1..Len(a)}
  IN SumOver(chars, [c \in chars |-> Min2(count_of(a, c), count_of(b, c))])

\* the length of the common run of a from i and b from j, inside the ranges
RECURSIVE common_run(_, _, _, _, _, _)
common_run(a, i, ahi, b, j, bhi) ==
  IF i < ahi /\ j < bhi /\ a[i] = b[j]
  THEN 1 + common_run(a, i + 1, ahi, b, j + 1, bhi)
  ELSE 0

\* SequenceMatcher.find_longest_match over a[alo..ahi-1] and b[blo..bhi-1]:
\* the longest block, the earliest in a, then the earliest in b
find_longest_match(a, alo, ahi, b, blo, bhi) ==
  LET pairs == (alo..(ahi - 1)) \X (blo..(bhi - 1))
      size(pr) == common_run(a, pr[1], ahi, b, pr[2], bhi)
      best == CHOOSE pr \in pairs :
                \A qr \in pairs :
                  \/ size(pr) > size(qr)
                  \/ /\ size(pr) = size(qr)
                     /\ \/ pr[1] < qr[1]
                        \/ pr[1] = qr[1] /\ pr[2] <= qr[2]
  IN IF pairs = {} THEN [i |-> alo, j |-> blo, size |-> 0]
     ELSE [i |-> best[1], j |-> best[2], size |-> size(best)]

\* the total size of SequenceMatcher.get_matching_blocks
RECURSIVE matching_size(_, _, _, _, _, _)
RECURSIVE split_size(_, _, _, _, _, _, _)
\* the block m and the blocks to its left and to its right
split_size(m, a, alo, ahi, b, blo, bhi) ==
  IF m.size = 0 THEN 0
  ELSE m.size
       + matching_size(a, alo, m.i, b, blo, m.j)
       + matching_size(a, m.i + m.size, ahi, b, m.j + m.size, bhi)

matching_size(a, alo, ahi, b, blo, bhi) ==
  split_size(find_longest_match(a, alo, ahi, b, blo, bhi),
             a, alo, ahi, b, blo, bhi)

\* SequenceMatcher(None, x, word).ratio() as (matches, length)
ratio_matches(x, word) ==
  matching_size(x, 1, Len(x) + 1, word, 1, Len(word) + 1)

\* real_quick_ratio() >= cutoff and quick_ratio() >= cutoff and
\* ratio() >= cutoff, for the possibility x against the word
is_close(x, word) ==
  /\ ratio_ok(Min2(Len(x), Len(word)), Len(x) + Len(word))
  /\ ratio_ok(quick_matches(x, word), Len(x) + Len(word))
  /\ ratio_ok(ratio_matches(x, word), Len(x) + Len(word))

\* the code point order of the lowercase letters
ord(c) == CHOOSE i \in 1..26 : LowerSeq[i] = c

\* Python's x < y on two words of lowercase letters
RECURSIVE str_less(_, _)
str_less(x, y) ==
  IF y = <<>> THEN FALSE
  ELSE IF x = <<>> THEN TRUE
  ELSE IF x[1] # y[1] THEN ord(x[1]) < ord(y[1])
  ELSE str_less(Tail(x), Tail(y))

\* (mx/tx, x) < (my/ty, y)
scored_less(mx, tx, x, my, ty, y) ==
  \/ mx * ty < my * tx
  \/ mx * ty = my * tx /\ str_less(x, y)

\* (score_x, x) < (score_y, y) on the tuples handed to _nlargest
score_less(x, y, word) ==
  scored_less(ratio_matches(x, word), Len(x) + Len(word), x,
              ratio_matches(y, word), Len(y) + Len(word), y)

\* get_close_matches(word, possibilities, n=1, cutoff=0.8): the set of
\* possibilities that pass, and the best of them
close_matches(word, possibilities) == {x \in possibilities : is_close(x, word)}

best_match(word, matches) ==
  CHOOSE x \in matches : \A y \in matches : y = x \/ score_less(y, x, word)

(***************************************************************************)
(* Diagnostics.  _error(message) appends                                   *)
(*   "Lexical Error (Line <line_number>): <message>";                      *)
(* a message is kept as its template and the values interpolated in it.    *)
(***************************************************************************)
Msg(text, args) == [text |-> text, args |-> args]

Error(line, message) == [line |-> line, message |-> message]

Token(type_, value, line) == [type |-> type_, value |-> value, line |-> line]

(***************************************************************************)
(* _classify_word(value, last_keyword): the classification and the         *)
(* messages handed to _error on the way.                                   *)
(***************************************************************************)
Classified(kind, messages) == [classification |-> kind, messages |-> messages]

\* CASE 1 with identifiers of any case accepted
function_identifier_any_case(value) == Classified("ID_VAR_FUNC", <<>>)

\* CASE 1: Function Identifier (after 'func')
function_identifier(value) ==
  IF any_upper(value)
  THEN Classified("INVALID",
         <<Msg("Invalid function identifier '{0}'. Must be snake_case.",
               <<value>>)>>)
  ELSE Classified("ID_VAR_FUNC", <<>>)

\* CASE 2 without the underscore check
type_identifier_underscore_ok(value) ==
  IF ~isupper(value[1])
  THEN Classified("INVALID",
         <<Msg("Invalid Type identifier '{0}'. Must start with Uppercase (PascalCase).",
               <<value>>)>>)
  ELSE Classified("ID_VAR_TYPE", <<>>)

\* CASE 2: Type Identifier (after 'type' or 'struct')
type_identifier(value) ==
  IF ~isupper(value[1])
  THEN Classified("INVALID",
         <<Msg("Invalid Type identifier '{0}'. Must start with Uppercase (PascalCase).",
               <<value>>)>>)
  ELSE IF has_underscore(value)
  THEN Classified("INVALID",
         <<Msg("Invalid Type identifier '{0}'. Cannot contain underscores.",
               <<value>>)>>)
  ELSE Classified("ID_VAR_TYPE", <<>>)

\* CASE 3: Variable Identifier (after primitive types only)
variable_identifier(value) ==
  IF isupper(value[1])
  THEN Classified("INVALID",
         <<Msg("Invalid variable identifier '{0}'. Variables must start with a lowercase letter.",
               <<value>>)>>)
  ELSE IF any_upper(value)
  THEN Classified("INVALID",
         <<Msg("Invalid variable identifier '{0}'. Must be snake_case (no uppercase).",
               <<value>>)>>)
  ELSE Classified("ID_VAR", <<>>)

\* FALLBACK without the underscore check
fallback_identifier_underscore_ok(value) ==
  IF isupper(value[1])
  THEN Classified("ID_VAR_TYPE", <<>>)
  ELSE Classified("ID_VAR", <<>>)

\* FALLBACK
fallback_identifier(value) ==
  IF isupper(value[1])
  THEN IF has_underscore(value)
       THEN Classified("INVALID",
              <<Msg("Invalid Type identifier '{0}'. Underscores allowed only in snake_case variables.",
                    <<value>>)>>)
       ELSE Classified("ID_VAR_TYPE", <<>>)
  ELSE Classified("ID_VAR", <<>>)

\* CONTEXT ENFORCEMENT and FALLBACK of _classify_word
classify_identifier(value, last_keyword) ==
  IF last_keyword = <<"f","u","n","c">> THEN function_identifier(value)
  ELSE IF last_keyword \in {<<"t","y","p","e">>, <<"s","t","r","u","c","t">>}
  THEN type_identifier(value)
  ELSE IF last_keyword \in primitive_types THEN variable_identifier(value)
  ELSE fallback_identifier(value)

\* rule 3 without the strict-predecessor guard
classify_keyword_unguarded(value, last_keyword) == Classified("KEYWORD", <<>>)

\* rule 3 of _classify_word: an exact keyword under the strict-predecessor guard
classify_keyword(value, last_keyword) ==
  IF last_keyword \in strict_predecessors
  THEN IF last_keyword = <<"f","u","n","c">> /\ value = <<"m","a","i","n">>
       THEN Classified("KEYWORD", <<>>)
       ELSE IF last_keyword \in primitive_types /\ value \in contract_keywords
       THEN Classified("KEYWORD", <<>>)
       ELSE Classified("INVALID",
              <<Msg("Invalid identifier '{0}'. Keywords cannot be used as variable or function names.",
                    <<value>>)>>)
  ELSE Classified("KEYWORD", <<>>)

\* the close matches found and not looked at
classify_typo_skipped(value, last_keyword, matches) ==
  classify_identifier(value, last_keyword)

\* the typo check (lines 280-291) on the close matches found
classify_typo(value, last_keyword, matches) ==
  IF matches # {} /\ Len(value) > 1
  THEN Classified("INVALID",
         <<Msg("Invalid lexeme '{0}'. Did you mean '{1}'?",
               <<value, best_match(value, matches)>>)>>)
  ELSE classify_identifier(value, last_keyword)

classify_word(value, last_keyword) ==
  IF value \in invalid_keywords
  THEN Classified("INVALID", <<Msg(invalid_keyword_message(value), <<>>)>>)
  ELSE IF value \in bool_literals THEN Classified("BOOL_LITERAL", <<>>)
  ELSE IF value \in keywords THEN classify_keyword(value, last_keyword)
  ELSE IF value \in reserved_words THEN Classified("RESERVED_WORD", <<>>)
  ELSE IF value \in noise_words THEN Classified("NOISE_WORD", <<>>)
  ELSE IF lower(value) \in keywords
  THEN Classified("INVALID",
         <<Msg("Keywords are case-sensitive. Did you mean '{0}'?",
               <<lower(value)>>)>>)
  ELSE classify_typo(value, last_keyword, close_matches(value, all_reserved))

(***************************************************************************)
(* One iteration of the loop of tokenize() (lexer.py lines 152-226): the   *)
(* match at position p, the tokens and errors it appends and the new       *)
(* values of line_number, last_keyword and the scan position.              *)
(***************************************************************************)
\* value.count('\n')
count_newlines(value) == Cardinality({i \in 1..Len(value) : value[i] = "\n"})

Iter(toks, errs, line, lk, next) ==
  [tokens |-> toks, errors |-> errs, line_number |-> line,
   last_keyword |-> lk, pos |-> next]

\* the message of a scanner error category
scanner_message(kind, value) ==
  CASE kind = "UNTERM_STRING" -> Msg("Unterminated string literal", <<>>)
    [] kind = "ERR_FLOAT" -> Msg("Invalid numeric literal '{0}'", <<value>>)
    [] kind = "ERR_SINGLE_QUOTE" ->
         Msg("Invalid character literal '{0}'. Char literals must contain exactly one character (e.g. 'a').",
             <<value>>)
    [] kind = "ERR_ID_DIGIT" ->
         Msg("Invalid identifier '{0}'. Cannot start with a digit.", <<value>>)
    [] kind = "ERR_ID_HYPHEN" ->
         Msg("Invalid identifier '{0}'. Hyphens are not allowed.", <<value>>)
    [] kind = "ERR_ILLEGAL_CHAR" -> Msg("Illegal character '{0}'.", <<value>>)
    [] kind = "MISMATCH" -> Msg("Unexpected character '{0}'", <<value>>)
    [] OTHER -> Msg("Invalid operator '{0}'.", <<value>>)

\* kind.startswith('ERR_OP')
is_err_op(kind) ==
  kind \in {"ERR_OP_TRIPLE_EQ", "ERR_OP_REL_REV", "ERR_OP_DBL_NOT",
            "ERR_OP_DBL_DASH"}

\* the error branches that stamp error and token with the same line
is_scanner_error(kind) ==
  \/ kind \in {"UNTERM_STRING", "ERR_FLOAT", "ERR_SINGLE_QUOTE", "ERR_ID_DIGIT",
               "ERR_ID_HYPHEN", "ERR_ILLEGAL_CHAR", "MISMATCH"}
  \/ is_err_op(kind)

\* lines 208-222 with the context cleared after a noise word as well
classified_iteration_noise_clears(c, value, line, last_keyword, next) ==
  LET errs1 == [i \in 1..Len(c.messages) |-> Error(line, c.messages[i])]
      bad_noise == /\ c.classification = "NOISE_WORD"
                   /\ valid_noise_contexts(last_keyword) # value
      errs2 == IF bad_noise
               THEN errs1 \o <<Error(line,
                      Msg("Invalid noise word use. '{0}' is not valid after '{1}'.",
                          <<value, last_keyword>>))>>
               ELSE errs1
      classification == IF bad_noise THEN "INVALID" ELSE c.classification
      lk == IF classification = "KEYWORD" THEN value ELSE None
  IN Iter(<<Token(classification, value, line)>>, errs2, line, lk, next)

\* lines 208-222 on the result c of _classify_word
classified_iteration(c, value, line, last_keyword, next) ==
  LET errs1 == [i \in 1..Len(c.messages) |-> Error(line, c.messages[i])]
      bad_noise == /\ c.classification = "NOISE_WORD"
                   /\ valid_noise_contexts(last_keyword) # value
      errs2 == IF bad_noise
               THEN errs1 \o <<Error(line,
                      Msg("Invalid noise word use. '{0}' is not valid after '{1}'.",
                          <<value, last_keyword>>))>>
               ELSE errs1
      classification == IF bad_noise THEN "INVALID" ELSE c.classification
      lk == IF classification = "KEYWORD" THEN value
            ELSE IF classification # "NOISE_WORD" THEN None
            ELSE last_keyword
  IN Iter(<<Token(classification, value, line)>>, errs2, line, lk, next)

\* the Word Classification branch without the call of _classify_word
word_iteration_raw(value, line, last_keyword, next) ==
  Iter(<<Token("WORD", value, line)>>, <<>>, line, None, next)

\* the Word Classification branch (lines 206-222)
word_iteration(value, line, last_keyword, next) ==
  classified_iteration(classify_word(value, last_keyword),
                       value, line, last_keyword, next)

\* the branches of lines 171-203: one error and one INVALID token, both with
\* the current line
scanner_error_iteration_drop(kind, value, line, last_keyword, next) ==
  Iter(IF kind = "ERR_ILLEGAL_CHAR" THEN <<>>
       ELSE <<Token("INVALID", value, line)>>,
       <<Error(line, scanner_message(kind, value))>>,
       line, last_keyword, next)

scanner_error_iteration(kind, value, line, last_keyword, next) ==
  Iter(<<Token("INVALID", value, line)>>,
       <<Error(line, scanner_message(kind, value))>>,
       line, last_keyword, next)

\* self.line_number += value.count('\n')
add_newlines_assign(line, value) == count_newlines(value)

add_newlines(line, value) == line + count_newlines(value)

\* the ERR_UNTERM_CMT branch without self.line_number += value.count('\n')
unterminated_comment_iteration_no_lines(value, line, last_keyword, next) ==
  Iter(<<Token("INVALID", value, line)>>,
       <<Error(line, Msg("Unterminated multi-line comment", <<>>))>>,
       line, last_keyword, next)

\* the ERR_UNTERM_CMT branch (lines 166-170): the error is stamped before
\* the line counter moves, the token after
unterminated_comment_iteration(value, line, last_keyword, next) ==
  Iter(<<Token("INVALID", value, add_newlines(line, value))>>,
       <<Error(line, Msg("Unterminated multi-line comment", <<>>))>>,
       add_newlines(line, value), last_keyword, next)

\* the body of the loop with the context cleared by every match
match_iteration_gap_clears(m, line, last_keyword) ==
  CASE m.kind = "NEWLINE" -> Iter(<<>>, <<>>, line + 1, None, m.next)
    [] m.kind \in {"SKIP", "COMMENT_SINGLE"} ->
         Iter(<<>>, <<>>, line, None, m.next)
    [] m.kind = "COMMENT_MULTI" ->
         Iter(<<>>, <<>>, add_newlines(line, m.value), None, m.next)
    [] m.kind = "ERR_UNTERM_CMT" ->
         unterminated_comment_iteration(m.value, line, last_keyword, m.next)
    [] is_scanner_error(m.kind) ->
         scanner_error_iteration(m.kind, m.value, line, last_keyword, m.next)
    [] m.kind = "WORD" -> word_iteration(m.value, line, last_keyword, m.next)
    [] OTHER -> Iter(<<Token(m.kind, m.value, line)>>, <<>>, line, None, m.next)

\* the body of the loop on the match m
match_iteration(m, line, last_keyword) ==
  CASE m.kind = "NEWLINE" -> Iter(<<>>, <<>>, line + 1, last_keyword, m.next)
    [] m.kind \in {"SKIP", "COMMENT_SINGLE"} ->
         Iter(<<>>, <<>>, line, last_keyword, m.next)
    [] m.kind = "COMMENT_MULTI" ->
         Iter(<<>>, <<>>, add_newlines(line, m.value), last_keyword, m.next)
    [] m.kind = "ERR_UNTERM_CMT" ->
         unterminated_comment_iteration(m.value, line, last_keyword, m.next)
    [] is_scanner_error(m.kind) ->
         scanner_error_iteration(m.kind, m.value, line, last_keyword, m.next)
    [] m.kind = "WORD" -> word_iteration(m.value, line, last_keyword, m.next)
    [] OTHER -> Iter(<<Token(m.kind, m.value, line)>>, <<>>, line, None, m.next)

iteration(s, p, line, last_keyword) ==
  match_iteration(master_regex(s, p), line, last_keyword)

\* Token('EOF', 'EOF', self.line_number)
EOF_token_first_line(line) == Token("EOF", <<"E", "O", "F">>, 1)

EOF_token(line) == Token("EOF", <<"E", "O", "F">>, line)

(***************************************************************************)
(* State: the fields of each LuminaLexer instance, the frame of its        *)
(* tokenize() call, and what its caller was handed.                        *)
(***************************************************************************)
Lexers == {1, 2}

VARIABLES
  source_code,   \* self.source_code of each lexer
  tokens,        \* self.tokens, the list object tokenize() returns
  errors,        \* self.errors
  line_number,   \* self.line_number
  last_keyword,  \* the local last_keyword of the tokenize() call
  pos,           \* the position of re.finditer in source_code
  pc,            \* "ready": constructed or returned and not yet called again;
                 \* "scan": inside the loop; "done": tokenize() has returned
  first_result,  \* history: what the first completed run on this source gave
  runs,          \* history: the completed runs on this source text
  held,          \* history: the caller holds the list this lexer returned
  iters,         \* history: the loop iterations of the current call
  matched,       \* history: the lexemes of the matches of the current call
  tabs,          \* TabbedEditor.tabs: tab id -> editor text, filepath, changed,
                 \* original_content, tokens
  mapped,        \* the tab whose editor is packed (winfo_ismapped)
  current_tokens,\* LuminaIDE.current_tokens, the displayed list
  tab_counter,   \* TabbedEditor.tab_counter
  console_output,\* the lines of LuminaIDE.console_output with their tags
  last_call      \* history: whether the last handler run was run_lexer
                 \* ("run_lexer" or "other"), and the call in its try block
                 \* that raised

lexer_vars == <<source_code, tokens, errors, line_number, last_keyword, pos, pc,
                first_result, runs, held, iters, matched>>

ide_vars == <<tabs, mapped, current_tokens, tab_counter, console_output, last_call>>

vars == <<source_code, tokens, errors, line_number, last_keyword, pos, pc,
          first_result, runs, held, iters, matched,
          tabs, mapped, current_tokens, tab_counter, console_output, last_call>>

NoResult == [source |-> <<>>, tokens |-> <<>>, errors |-> <<>>]

(***************************************************************************)
(* A run of tokenize() taken alone, as a fold of the loop body: the        *)
(* reference the interleaved runs are compared with.                       *)
(***************************************************************************)
\* the state of a call after lines 76-80
start_state == Iter(<<>>, <<>>, 1, None, 1)

\* the state after one more iteration of the loop
appended(st, it) ==
  Iter(st.tokens \o it.tokens, st.errors \o it.errors,
       it.line_number, it.last_keyword, it.pos)

advance(s, st) ==
  appended(st, iteration(s, st.pos, st.line_number, st.last_keyword))

\* the state of the loop when the scan position has reached p
RECURSIVE run_to(_, _, _)
run_to(s, st, p) ==
  IF st.pos >= p \/ st.pos > Len(s) THEN st ELSE run_to(s, advance(s, st), p)

\* the token and error lists after tokenize() has returned
returned(st) ==
  [tokens |-> Append(st.tokens, EOF_token(st.line_number)),
   errors |-> st.errors]

run_alone(s) == returned(run_to(s, start_state, Len(s) + 1))

(***************************************************************************)
(* Source buffers: concatenations of a few fragments.                      *)
(***************************************************************************)
Fragments ==
  {<<"i","n","t">>, <<"X">>, <<"t","h","e">>, <<"\n">>, <<" ">>,
   <<"/","*">>, <<"*","/">>, <<"\"">>, <<"'">>, <<"@">>}

PairFragments == {<<"i","n","t">>, <<"X">>, <<"\n">>}

\* the concatenations of at most n fragments of F
RECURSIVE Concats(_, _)
Concats(F, n) ==
  IF n = 0 THEN {<<>>}
  ELSE LET shorter == Concats(F, n - 1)
       IN shorter \cup {b \o f : b \in shorter, f \in F}

Buffers == Concats(Fragments, MaxFrags)

PairBuffers == Concats(PairFragments, MaxPairFrags)

\* the lexemes that set up a context: keywords of each predecessor class, a
\* noise word and an illegal character
ContextLexemes ==
  {<<"f","u","n","c">>, <<"t","y","p","e">>, <<"s","t","r","u","c","t">>,
   <<"i","n","t">>, <<"r","e","q","u","i","r","e","s">>, <<"i","s">>, <<"@">>}

\* the lexemes a phrase ends with
Lexemes ==
  ContextLexemes \cup
  {<<"m","a","i","n">>, <<"i","f">>, <<"t","h","a","t">>, <<"t","r","u","e">>,
   <<"e","l","s","e","i","f">>, <<"p","r","i","n","t">>,
   <<"f","u","n","c","t","i","o","n">>, <<"w","h","l","e">>, <<"i","n">>,
   <<"_","x">>, <<"x">>, <<"X">>, <<"a","B">>, <<"A","_","b">>, <<"1">>}

\* at most n context lexemes, each followed by a blank
RECURSIVE Prefixes(_)
Prefixes(n) ==
  IF n = 0 THEN {<<>>}
  ELSE LET shorter == Prefixes(n - 1)
       IN shorter \cup {b \o f \o <<" ">> : b \in shorter, f \in ContextLexemes}

\* the phrases: context lexemes and one more lexeme, blank-separated
WordBuffers == {b \o w : b \in Prefixes(MaxWords - 1), w \in Lexemes}

\* what may stand between two tokens: blanks, a line break, a line comment
\* with its line break, block comments of one and of two lines
GapLexemes ==
  {<<" ">>, <<"\t">>, <<"\n">>, <<"/","/","c","\n">>,
   <<"/","*","c","*","/">>, <<"/","*","\n","*","/">>}

\* a keyword of each class that governs the next identifier
GapHeads == {<<"f","u","n","c">>, <<"t","y","p","e">>, <<"i","n","t">>}

\* the words met after the gap
GapWords == {<<"x">>, <<"X">>, <<"m","a","i","n">>}

\* a governing keyword, at most MaxGaps gap lexemes, a word
GapBuffers ==
  {h \o g \o w : h \in GapHeads, g \in Concats(GapLexemes, MaxGaps), w \in GapWords}

\* a keyword, a letter, an underscore, a digit, the hyphen and a blank
HyphenFragments ==
  {<<"i","n","t">>, <<"x">>, <<"_">>, <<"1">>, <<"-">>, <<" ">>}

HyphenBuffers == Concats(HyphenFragments, MaxHyphenFrags)

(***************************************************************************)
(* The editor window of ide_window.py: the tabs, the displayed token list  *)
(* and the console, as a record st that each method takes to the next.     *)
(***************************************************************************)
\* get_current_tab_id() when no editor is mapped
NoTab == 0

\* filepath=None
NoPath == ""

\* str.strip() and str.rstrip() remove these
Whitespace == {" ", "\t", "\n", "\r"}

\* str.rstrip()
rstrip(s) ==
  IF \A i \in 1..Len(s) : s[i] \in Whitespace THEN <<>>
  ELSE SubSeq(s, 1, CHOOSE b \in 1..Len(s) :
                      /\ s[b] \notin Whitespace
                      /\ \A i \in (b + 1)..Len(s) : s[i] \in Whitespace)

\* str.strip()
strip(s) == Slice(rstrip(s), RunEnd(rstrip(s), 1, Whitespace), Len(rstrip(s)) + 1)

\* editor.get("1.0", tk.END): the text and the line break Tk ends it with
editor_get(content) == content \o <<"\n">>

\* the entry create_new_tab stores for a tab, lines 106-116
Tab(filepath, content) ==
  [editor |-> content, filepath |-> filepath, changed |-> FALSE,
   original_content |-> content, tokens |-> <<>>]

\* log_console(message, msg_type), lines 736-754
log_console(st, message, msg_type) ==
  [st EXCEPT !.console_output = Append(@, [type |-> msg_type, message |-> message])]

\* render_tokens(tokens), line 438
render_tokens(st, toks) == [st EXCEPT !.current_tokens = toks]

\* switch_to_tab that shows the editor and leaves the token table alone
switch_to_tab_no_restore(st, tab_id) ==
  IF tab_id \notin DOMAIN st.tabs THEN st
  ELSE [st EXCEPT !.mapped = tab_id]

\* switch_to_tab(tab_id), lines 129-161
switch_to_tab(st, tab_id) ==
  IF tab_id \notin DOMAIN st.tabs THEN st
  ELSE render_tokens([st EXCEPT !.mapped = tab_id], st.tabs[tab_id].tokens)

\* self.tabs with one more entry
with_tab(tabs_, tab_id, tab) ==
  [t \in DOMAIN tabs_ \cup {tab_id} |-> IF t = tab_id THEN tab ELSE tabs_[t]]

\* create_new_tab(filename, filepath, content), lines 52-127
create_new_tab(st, filepath, content) ==
  switch_to_tab([st EXCEPT !.tab_counter = st.tab_counter + 1,
                           !.tabs = with_tab(st.tabs, st.tab_counter + 1,
                                             Tab(filepath, content))],
                st.tab_counter + 1)

\* set_tab_changed(tab_id, changed), lines 247-251
set_tab_changed(st, tab_id, changed) ==
  IF tab_id \in DOMAIN st.tabs
  THEN [st EXCEPT !.tabs[tab_id].changed = changed]
  ELSE st

\* save_file(tab_id), lines 594-623, for a tab that has a path; written: the
\* file could be written.  For a tab without path the dialog is dismissed.
save_file(st, tab_id, written) ==
  IF tab_id \notin DOMAIN st.tabs THEN st
  ELSE IF st.tabs[tab_id].filepath = NoPath \/ ~written THEN st
  ELSE log_console(set_tab_changed(st, tab_id, FALSE),
                   Msg("Code saved: {0}", <<st.tabs[tab_id].filepath>>), "normal")

\* next(iter(self.tabs)): the dict keeps insertion order and ids only grow
first_tab(tabs_) == CHOOSE t \in DOMAIN tabs_ : \A u \in DOMAIN tabs_ : t <= u

\* close_tab from `del self.tabs[tab_id]` on, lines 185-195
delete_tab(st, tab_id) ==
  IF DOMAIN st.tabs = {tab_id}
  THEN create_new_tab([st EXCEPT !.tabs = <<>>, !.mapped = NoTab], NoPath, <<>>)
  ELSE switch_to_tab(
         [st EXCEPT !.tabs = [t \in DOMAIN st.tabs \ {tab_id} |-> st.tabs[t]],
                    !.mapped = IF st.mapped = tab_id THEN NoTab ELSE st.mapped],
         first_tab([t \in DOMAIN st.tabs \ {tab_id} |-> st.tabs[t]]))

\* close_tab(tab_id), lines 163-195; response: the answer to the save prompt
close_tab(st, tab_id, response, written) ==
  IF tab_id \notin DOMAIN st.tabs THEN st
  ELSE IF st.tabs[tab_id].changed /\ response = "cancel" THEN st
  ELSE IF st.tabs[tab_id].changed /\ response = "yes"
       THEN delete_tab(save_file(st, tab_id, written), tab_id)
       ELSE delete_tab(st, tab_id)

\* the list of dicts of line 783
normalized(toks) ==
  [k \in 1..Len(toks) |->
     [line |-> toks[k].line, type |-> toks[k].type, lexeme |-> toks[k].value]]

\* lines 794-806: the header and one line per error, or the success line
log_result(st, result) ==
  IF result.errors # <<>>
  THEN [log_console(st, Msg("Analysis completed with {0} error(s):",
                            <<Len(result.errors)>>), "error")
          EXCEPT !.console_output =
            @ \o [i \in 1..Len(result.errors) |->
                    [type |-> "error", message |-> Msg("  {0}", <<result.errors[i]>>)]]]
  ELSE log_console(st, Msg("Success! Generated {0} tokens with no errors.",
                           <<Len(result.tokens)>>), "success")

\* the except branch with the stored list of the tab left as it is
run_lexer_except_keeps_tab(st) ==
  log_console(render_tokens(st, <<>>), Msg("CRITICAL ERROR: {0}", <<"e">>), "error")

\* the except branch of run_lexer, lines 808-813
run_lexer_except(st) ==
  log_console([render_tokens(st, <<>>) EXCEPT !.tabs[st.mapped].tokens = <<>>],
              Msg("CRITICAL ERROR: {0}", <<"e">>), "error")

\* the try block of run_lexer, lines 779-806, with the result of tokenize();
\* raised: the call that raised, "" when none did
run_lexer_try(st, result, raised) ==
  CASE raised = "tokenize" -> run_lexer_except(st)
    [] raised = "render_tokens" ->
         run_lexer_except([st EXCEPT !.tabs[st.mapped].tokens = normalized(result.tokens)])
    [] OTHER ->
         log_result(render_tokens([st EXCEPT !.tabs[st.mapped].tokens =
                                               normalized(result.tokens)],
                                  normalized(result.tokens)),
                    result)

\* run_lexer from line 767 on, with the stripped text of the editor
run_lexer_source(st, source, raised) ==
  IF source = <<>>
  THEN log_console(render_tokens([st EXCEPT !.tabs[st.mapped].tokens = <<>>], <<>>),
                   Msg("Source code is empty.", <<>>), "error")
  ELSE run_lexer_try(log_console(st, Msg("Running Lexical Analysis...", <<>>), "normal"),
                     run_alone(source), raised)

\* run_lexer(), lines 756-813
run_lexer(st, raised) ==
  IF st.mapped = NoTab THEN st
  ELSE run_lexer_source(st, strip(editor_get(st.tabs[st.mapped].editor)), raised)

\* the texts typed into an editor or read from a file
IDETexts == {<<>>, <<"\n", "x">>, <<"@">>}

\* the files the open dialog offers
IDEPaths == {"a.lum"}

\* the window after LuminaIDE.__init__: one tab, nothing displayed, lines
\* 433-434 and 25-50
IDE_init ==
  create_new_tab([tabs |-> <<>>, mapped |-> NoTab, current_tokens |-> <<>>,
                  tab_counter |-> 0, console_output |-> <<>>],
                 NoPath, <<>>)

\* the buffers a further lexer is constructed on: the same text again, or
\* a one-fragment text
Reloads(l) == {source_code[l]} \cup Concats(Fragments, 1)

(***************************************************************************)
(* Operations.                                                             *)
(***************************************************************************)
\* LuminaLexer(source_code) for every lexer of the given set
Constructed(srcs) ==
  /\ source_code = srcs
  /\ tokens = [l \in Lexers |-> <<>>]
  /\ errors = [l \in Lexers |-> <<>>]
  /\ line_number = [l \in Lexers |-> 1]
  /\ last_keyword = [l \in Lexers |-> None]
  /\ pos = [l \in Lexers |-> 1]
  /\ pc = [l \in Lexers |-> "ready"]
  /\ first_result = [l \in Lexers |-> NoResult]
  /\ runs = [l \in Lexers |-> 0]
  /\ held = [l \in Lexers |-> FALSE]
  /\ iters = [l \in Lexers |-> 0]
  /\ matched = [l \in Lexers |-> <<>>]
  /\ tabs = IDE_init.tabs
  /\ mapped = IDE_init.mapped
  /\ current_tokens = IDE_init.current_tokens
  /\ tab_counter = IDE_init.tab_counter
  /\ console_output = IDE_init.console_output
  /\ last_call = [handler |-> "other", raised |-> ""]

\* one lexer, on any buffer; the second lexer is never used
Init == \E s \in Buffers : Constructed([l \in Lexers |-> IF l = 1 THEN s ELSE <<>>])

\* two lexers, each on its own buffer
InitPair == \E srcs \in [Lexers -> PairBuffers] : Constructed(srcs)

\* lexer = LuminaLexer(s) once a run has returned (run_lexer, line 780):
\* the variable is bound to a new object with new lists
LuminaLexer_init(l, s) ==
  /\ pc[l] = "done"
  /\ source_code' = [source_code EXCEPT ![l] = s]
  /\ tokens' = [tokens EXCEPT ![l] = <<>>]
  /\ errors' = [errors EXCEPT ![l] = <<>>]
  /\ line_number' = [line_number EXCEPT ![l] = 1]
  /\ pc' = [pc EXCEPT ![l] = "ready"]
  /\ held' = [held EXCEPT ![l] = FALSE]
  /\ first_result' = [first_result EXCEPT
                        ![l] = IF s = source_code[l] THEN @ ELSE NoResult]
  /\ runs' = [runs EXCEPT ![l] = IF s = source_code[l] THEN @ ELSE 0]
  /\ iters' = [iters EXCEPT ![l] = 0]
  /\ matched' = [matched EXCEPT ![l] = <<>>]
  /\ UNCHANGED ide_vars
  /\ UNCHANGED <<last_keyword, pos>>

\* tokenize() without self.errors.clear()
tokenize_begin_keep_errors(l) ==
  /\ pc[l] \in {"ready", "done"}
  /\ runs[l] < MaxRuns
  /\ tokens' = [tokens EXCEPT ![l] = <<>>]
  /\ line_number' = [line_number EXCEPT ![l] = 1]
  /\ last_keyword' = [last_keyword EXCEPT ![l] = None]
  /\ pos' = [pos EXCEPT ![l] = 1]
  /\ pc' = [pc EXCEPT ![l] = "scan"]
  /\ iters' = [iters EXCEPT ![l] = 0]
  /\ matched' = [matched EXCEPT ![l] = <<>>]
  /\ UNCHANGED ide_vars
  /\ UNCHANGED <<source_code, errors, first_result, runs, held>>

\* tokenize() with last_keyword kept from one call to the next
tokenize_begin_keep_context(l) ==
  /\ pc[l] \in {"ready", "done"}
  /\ runs[l] < MaxRuns
  /\ tokens' = [tokens EXCEPT ![l] = <<>>]
  /\ errors' = [errors EXCEPT ![l] = <<>>]
  /\ line_number' = [line_number EXCEPT ![l] = 1]
  /\ pos' = [pos EXCEPT ![l] = 1]
  /\ pc' = [pc EXCEPT ![l] = "scan"]
  /\ iters' = [iters EXCEPT ![l] = 0]
  /\ matched' = [matched EXCEPT ![l] = <<>>]
  /\ UNCHANGED ide_vars
  /\ UNCHANGED <<source_code, last_keyword, first_result, runs, held>>

\* tokenize() with the lists and the line counter as class attributes,
\* one object for all lexers
tokenize_begin_shared(l) ==
  /\ pc[l] \in {"ready", "done"}
  /\ runs[l] < MaxRuns
  /\ tokens' = [i \in Lexers |-> <<>>]
  /\ errors' = [i \in Lexers |-> <<>>]
  /\ line_number' = [i \in Lexers |-> 1]
  /\ last_keyword' = [last_keyword EXCEPT ![l] = None]
  /\ pos' = [pos EXCEPT ![l] = 1]
  /\ pc' = [pc EXCEPT ![l] = "scan"]
  /\ iters' = [iters EXCEPT ![l] = 0]
  /\ matched' = [matched EXCEPT ![l] = <<>>]
  /\ UNCHANGED ide_vars
  /\ UNCHANGED <<source_code, first_result, runs, held>>

\* tokenize(), lines 76-80
tokenize_begin(l) ==
  /\ pc[l] \in {"ready", "done"}
  /\ runs[l] < MaxRuns
  /\ tokens' = [tokens EXCEPT ![l] = <<>>]
  /\ errors' = [errors EXCEPT ![l] = <<>>]
  /\ line_number' = [line_number EXCEPT ![l] = 1]
  /\ last_keyword' = [last_keyword EXCEPT ![l] = None]
  /\ pos' = [pos EXCEPT ![l] = 1]
  /\ pc' = [pc EXCEPT ![l] = "scan"]
  /\ iters' = [iters EXCEPT ![l] = 0]
  /\ matched' = [matched EXCEPT ![l] = <<>>]
  /\ UNCHANGED ide_vars
  /\ UNCHANGED <<source_code, first_result, runs, held>>

\* the loop with a whitespace match that is looked at and not consumed
tokenize_match_stuck(l) ==
  /\ pc[l] = "scan"
  /\ pos[l] <= Len(source_code[l])
  /\ \E m \in {master_regex(source_code[l], pos[l])} :
      \E it \in {match_iteration(m, line_number[l], last_keyword[l])} :
        /\ matched' = [matched EXCEPT ![l] = Append(@, m.value)]
        /\ tokens' = [tokens EXCEPT ![l] = @ \o it.tokens]
        /\ errors' = [errors EXCEPT ![l] = @ \o it.errors]
        /\ line_number' = [line_number EXCEPT ![l] = it.line_number]
        /\ last_keyword' = [last_keyword EXCEPT ![l] = it.last_keyword]
        /\ pos' = [pos EXCEPT ![l] = IF m.kind = "SKIP" THEN @ ELSE it.pos]
  /\ iters' = [iters EXCEPT ![l] = @ + 1]
  /\ UNCHANGED ide_vars
  /\ UNCHANGED <<source_code, pc, first_result, runs, held>>

\* tokenize(), one iteration of the loop of lines 152-226
tokenize_match(l) ==
  /\ pc[l] = "scan"
  /\ pos[l] <= Len(source_code[l])
  /\ \E m \in {master_regex(source_code[l], pos[l])} :
      \E it \in {match_iteration(m, line_number[l], last_keyword[l])} :
        /\ matched' = [matched EXCEPT ![l] = Append(@, m.value)]
        /\ tokens' = [tokens EXCEPT ![l] = @ \o it.tokens]
        /\ errors' = [errors EXCEPT ![l] = @ \o it.errors]
        /\ line_number' = [line_number EXCEPT ![l] = it.line_number]
        /\ last_keyword' = [last_keyword EXCEPT ![l] = it.last_keyword]
        /\ pos' = [pos EXCEPT ![l] = it.pos]
  /\ iters' = [iters EXCEPT ![l] = @ + 1]
  /\ UNCHANGED ide_vars
  /\ UNCHANGED <<source_code, pc, first_result, runs, held>>

\* tokenize(), lines 228-229: the EOF token, and the list itself is returned
tokenize_return(l) ==
  /\ pc[l] = "scan"
  /\ pos[l] > Len(source_code[l])
  /\ tokens' = [tokens EXCEPT ![l] = Append(@, EOF_token(line_number[l]))]
  /\ pc' = [pc EXCEPT ![l] = "done"]
  /\ held' = [held EXCEPT ![l] = TRUE]
  /\ runs' = [runs EXCEPT ![l] = @ + 1]
  /\ first_result' = [first_result EXCEPT
                        ![l] = IF runs[l] = 0
                               THEN [source |-> source_code[l],
                                     tokens |-> tokens'[l],
                                     errors |-> errors[l]]
                               ELSE @]
  /\ UNCHANGED ide_vars
  /\ UNCHANGED <<source_code, errors, line_number, last_keyword, pos, iters,
                 matched>>

Next ==
  \/ \E s \in Reloads(1) : LuminaLexer_init(1, s)
  \/ tokenize_begin(1)
  \/ tokenize_match(1)
  \/ tokenize_return(1)

Spec == Init /\ [][Next]_vars

\* the first call on a lexer
tokenize_first(l) == pc[l] = "ready" /\ tokenize_begin(l)

NextPair ==
  \/ \E l \in Lexers : tokenize_first(l)
  \/ \E l \in Lexers : tokenize_match(l)
  \/ \E l \in Lexers : tokenize_return(l)

SpecPair == InitPair /\ [][NextPair]_vars

\* one lexer on a phrase, one call of tokenize()
InitWords ==
  \E s \in WordBuffers : Constructed([l \in Lexers |-> IF l = 1 THEN s ELSE <<>>])

NextWords ==
  \/ tokenize_first(1)
  \/ tokenize_match(1)
  \/ tokenize_return(1)

SpecWords == InitWords /\ [][NextWords]_vars

\* one lexer on a keyword, a gap and a word, one call of tokenize()
InitGaps ==
  \E s \in GapBuffers : Constructed([l \in Lexers |-> IF l = 1 THEN s ELSE <<>>])

SpecGaps == InitGaps /\ [][NextWords]_vars

\* one lexer on words, digits and hyphens, one call of tokenize()
InitHyphen ==
  \E s \in HyphenBuffers : Constructed([l \in Lexers |-> IF l = 1 THEN s ELSE <<>>])

SpecHyphen == InitHyphen /\ [][NextWords]_vars

(***************************************************************************)
(* The handlers of the editor window.                                      *)
(***************************************************************************)
\* the window as a record
ide ==
  [tabs |-> tabs, mapped |-> mapped, current_tokens |-> current_tokens,
   tab_counter |-> tab_counter, console_output |-> console_output]

\* the handler has taken the window to st
ide_becomes(st, handler, raised) ==
  /\ tabs' = st.tabs
  /\ mapped' = st.mapped
  /\ current_tokens' = st.current_tokens
  /\ tab_counter' = st.tab_counter
  /\ console_output' = st.console_output
  /\ last_call' = [handler |-> handler, raised |-> raised]
  /\ UNCHANGED lexer_vars

\* add_new_file(), lines 510-518
add_new_file ==
  /\ tab_counter < MaxTabs
  /\ Len(console_output) < MaxConsole
  /\ ide_becomes(log_console(create_new_tab(ide, NoPath, <<>>),
                             Msg("Created new file: {0}", <<"Untitled">>), "normal"),
                 "other", "")

\* open_file(), lines 520-545, with the path chosen and the text read
open_file(file_path, content) ==
  /\ Len(console_output) < MaxConsole
  /\ IF \E t \in DOMAIN tabs : tabs[t].filepath = file_path
     THEN ide_becomes(
            log_console(switch_to_tab(ide, CHOOSE t \in DOMAIN tabs :
                                             tabs[t].filepath = file_path),
                        Msg("Switched to already open file: {0}", <<file_path>>),
                        "normal"),
            "other", "")
     ELSE /\ tab_counter < MaxTabs
          /\ ide_becomes(
               log_console(create_new_tab(ide, file_path, content),
                           Msg("Opened: {0}", <<file_path>>), "normal"),
               "other", "")

\* select_tab, lines 119-123: a click on the label of a tab
select_tab(tab_id) ==
  /\ tab_id \in DOMAIN tabs
  /\ ide_becomes(switch_to_tab(ide, tab_id), "other", "")

\* the answers to the prompt of close_tab, which is shown for a changed tab
responses(tab_id) ==
  IF tab_id \in DOMAIN tabs /\ tabs[tab_id].changed
  THEN {"yes", "no", "cancel"}
  ELSE {"no"}

\* the close button of a tab, line 67, with the answer to the prompt and
\* whether the file could be written
close_btn(tab_id) ==
  /\ tab_id \in DOMAIN tabs
  /\ DOMAIN tabs = {tab_id} => tab_counter < MaxTabs
  /\ \E response \in responses(tab_id) :
       \E written \in (IF response = "yes" THEN BOOLEAN ELSE {TRUE}) :
         ide_becomes(close_tab(ide, tab_id, response, written), "other", "")

\* on_key_release, lines 94-100, after the keys have made the text of the
\* mapped editor text
on_key_release(text) ==
  /\ mapped # NoTab
  /\ text # tabs[mapped].editor
  /\ ide_becomes(
       IF /\ tabs[mapped].filepath # NoPath
          /\ tabs[mapped].original_content # <<>>
          /\ rstrip(editor_get(text)) # rstrip(tabs[mapped].original_content)
       THEN set_tab_changed([ide EXCEPT !.tabs[mapped].editor = text], mapped, TRUE)
       ELSE [ide EXCEPT !.tabs[mapped].editor = text],
       "other", "")

\* the Run Lexer button, line 399
btn_run(raised) ==
  /\ Len(console_output) < MaxConsole
  /\ ide_becomes(run_lexer(ide, raised), "run_lexer",
                 IF mapped = NoTab \/ strip(editor_get(tabs[mapped].editor)) = <<>>
                 THEN "" ELSE raised)

NextIDE ==
  \/ add_new_file
  \/ \E f \in IDEPaths, c \in IDETexts : open_file(f, c)
  \/ \E t \in 1..MaxTabs : select_tab(t)
  \/ \E t \in 1..MaxTabs : close_btn(t)
  \/ \E text \in IDETexts : on_key_release(text)
  \/ \E raised \in {"", "tokenize", "render_tokens"} : btn_run(raised)

\* the window; no lexer outlives a call of run_lexer
InitIDE == Constructed([l \in Lexers |-> <<>>])

SpecIDE == InitIDE /\ [][NextIDE]_vars

(***************************************************************************)
(* Properties.                                                             *)
(***************************************************************************)
\* the tokens of type INVALID, in order
invalid_tokens(toks) == SelectSeq(toks, LAMBDA tk : tk.type = "INVALID")

\* the number of tokens of type EOF
count_EOF(toks) == Cardinality({i \in 1..Len(toks) : toks[i].type = "EOF"})

\* C1: when tokenize() has returned, the token list holds exactly one EOF
\* token, it is the last element, and its line is the line counter the scan
\* ended with.
C1_TerminalEOF ==
  \A l \in Lexers :
    pc[l] = "done" =>
      /\ tokens[l] # <<>>
      /\ tokens[l][Len(tokens[l])] = Token("EOF", <<"E", "O", "F">>, line_number[l])
      /\ count_EOF(tokens[l]) = 1

\* a comment-only buffer of two lines has been tokenized
C1_Witness ==
  /\ pc[1] = "done"
  /\ source_code[1] = <<"/", "*", "\n", "*", "/">>
  /\ tokens[1] = <<Token("EOF", <<"E", "O", "F">>, 2)>>

\* C2: the loop of a call consumes at least one character per iteration and
\* so runs at most one iteration per character of the buffer; the position
\* stays inside the buffer until it is one past its end, and there the call
\* returns, whether or not errors were reported.
C2_Terminates ==
  \A l \in Lexers :
    /\ iters[l] <= Len(source_code[l])
    /\ pc[l] = "scan" =>
         /\ 1 <= pos[l] /\ pos[l] <= Len(source_code[l]) + 1
         /\ iters[l] <= pos[l] - 1
    /\ pc[l] = "done" => pos[l] = Len(source_code[l]) + 1

\* a run that reported errors has returned, the whole buffer scanned in
\* fewer iterations than it has characters
C2_Witness ==
  /\ pc[1] = "done"
  /\ Len(errors[1]) >= 2
  /\ iters[1] >= 2
  /\ iters[1] < Len(source_code[1])
  /\ pos[1] = Len(source_code[1]) + 1

\* C3: a further run on the same source text, on the same lexer or on a new
\* one, returns the tokens and errors the first run on that text returned.
C3_Idempotent ==
  \A l \in Lexers :
    (pc[l] = "done" /\ runs[l] >= 1) =>
      /\ first_result[l].source = source_code[l]
      /\ tokens[l] = first_result[l].tokens
      /\ errors[l] = first_result[l].errors

\* a second run on a text with tokens and errors has returned
C3_Witness ==
  /\ pc[1] = "done"
  /\ runs[1] = 2
  /\ Len(tokens[1]) >= 3
  /\ errors[1] # <<>>

\* C4: at the start of every run last_keyword is none, whatever keyword the
\* run before ended with.
C4_ContextReset ==
  \A l \in Lexers : (pc[l] = "scan" /\ pos[l] = 1) => last_keyword[l] = None

\* a second run starts on a text that begins with a word and whose first run
\* ended with a keyword as its last token
C4_Witness ==
  /\ pc[1] = "scan"
  /\ pos[1] = 1
  /\ runs[1] = 1
  /\ M_WORD(source_code[1], 1) > 0
  /\ Len(first_result[1].tokens) >= 3
  /\ first_result[1].tokens[Len(first_result[1].tokens) - 1].type = "KEYWORD"
  /\ last_keyword[1] = None

\* C5: a caller holding the list a run returned sees the tokens and errors
\* of that run, also while and after a later run on the same lexer.
C5_HeldResultUnmodified ==
  \A l \in Lexers :
    held[l] =>
      /\ tokens[l] = first_result[l].tokens
      /\ errors[l] = first_result[l].errors

\* C6: with the steps of two lexers interleaved, each lexer is at every point
\* of its run in the state its run reaches alone, and returns what its run
\* returns alone.
C6_Isolated ==
  \A l \in Lexers :
    /\ pc[l] = "scan" =>
         Iter(tokens[l], errors[l], line_number[l], last_keyword[l], pos[l])
           = run_to(source_code[l], start_state, pos[l])
    /\ pc[l] = "done" =>
         [tokens |-> tokens[l], errors |-> errors[l]] = run_alone(source_code[l])

\* both runs are under way at once, on different lines and in different
\* contexts
C6_Witness ==
  /\ pc[1] = "scan" /\ pc[2] = "scan"
  /\ tokens[1] # <<>> /\ tokens[2] # <<>>
  /\ line_number[1] # line_number[2]
  /\ last_keyword[1] # last_keyword[2]
  /\ errors[1] # errors[2]

\* C7: the lines of the tokens of a list never decrease from one token to
\* the next, the EOF token included.
C7_LinesMonotone ==
  \A l \in Lexers :
    \A i \in 1..(Len(tokens[l]) - 1) : tokens[l][i].line <= tokens[l][i + 1].line

\* a returned list with a token on line 1, a token on a later line and EOF
C7_Witness ==
  /\ pc[1] = "done"
  /\ Len(tokens[1]) = 3
  /\ tokens[1][1].line < tokens[1][2].line
  /\ tokens[1][2].type # "EOF"

\* the buffer ends in an unterminated block comment: the last token before
\* EOF is the INVALID token of a "/*" that is never closed
ends_in_unterminated_comment(toks) ==
  /\ Len(toks) >= 2
  /\ toks[Len(toks) - 1].type = "INVALID"
  /\ Len(toks[Len(toks) - 1].value) >= 2
  /\ toks[Len(toks) - 1].value[1] = "/"
  /\ toks[Len(toks) - 1].value[2] = "*"

\* C8: for a buffer that does not end in an unterminated block comment the
\* line of the EOF token is 1 + the number of newlines of the buffer.
C8_EOFLineCountsNewlines ==
  \A l \in Lexers :
    (pc[l] = "done" /\ ~ends_in_unterminated_comment(tokens[l])) =>
      tokens[l][Len(tokens[l])].line = 1 + count_newlines(source_code[l])

\* the start positions of the matches that emit a token, from position p on
RECURSIVE token_starts(_, _)
token_starts(s, p) ==
  IF p > Len(s) THEN <<>>
  ELSE LET m == master_regex(s, p)
       IN (IF m.kind \in {"NEWLINE", "SKIP", "COMMENT_SINGLE", "COMMENT_MULTI"}
           THEN <<>> ELSE <<p>>) \o token_starts(s, m.next)

\* the 1-based line of position p of the buffer
line_of(s, p) == 1 + count_newlines(Slice(s, 1, p))

\* C9: every token but EOF is stamped with the line of its first character.
C9_TokenLineIsFirstCharLine ==
  \A l \in Lexers :
    \A k \in 1..Len(tokens[l]) :
      tokens[l][k].type # "EOF" =>
        tokens[l][k].line =
          line_of(source_code[l], token_starts(source_code[l], 1)[k])

\* the diagnostic is one the lexer gives for the lexeme
message_fits(message, value) ==
  CASE message.text = "Unterminated string literal" -> value[1] = "\""
    [] message.text = "Unterminated multi-line comment" ->
         Len(value) >= 2 /\ value[1] = "/" /\ value[2] = "*"
    [] message.text = "Invalid keyword. Use 'func'." ->
         value = <<"f","u","n","c","t","i","o","n">>
    [] message.text = "Invalid keyword. Use 'else if'." ->
         value = <<"e","l","s","e","i","f">>
    [] message.text = "Invalid keyword. Use 'display'." ->
         value = <<"p","r","i","n","t">>
    [] message.text = "Keywords are case-sensitive. Did you mean '{0}'?" ->
         message.args[1] = lower(value)
    [] OTHER -> message.args # <<>> /\ message.args[1] = value

\* C10: the errors and the INVALID tokens of a run pair up in order, one
\* error for one INVALID token carrying the lexeme the error is about, and
\* a run that reported errors still scans the buffer to its end.
C10_ErrorsPairWithInvalidTokens ==
  \A l \in Lexers :
    LET inv == invalid_tokens(tokens[l])
    IN /\ Len(errors[l]) = Len(inv)
       /\ \A k \in 1..Len(inv) :
            /\ message_fits(errors[l][k].message, inv[k].value)
            /\ errors[l][k].line <= inv[k].line
       /\ pc[l] = "done" => pos[l] = Len(source_code[l]) + 1

\* a returned list with two errors, a noise word error and a scanner error,
\* and a valid token after the first INVALID token
C10_Witness ==
  /\ pc[1] = "done"
  /\ Len(errors[1]) = 2
  /\ errors[1][1].message.text =
       "Invalid noise word use. '{0}' is not valid after '{1}'."
  /\ errors[1][2].message.text = "Illegal character '{0}'."
  /\ \E i, j \in 1..Len(tokens[1]) :
       /\ i < j
       /\ tokens[1][i].type = "INVALID"
       /\ tokens[1][j].type \notin {"INVALID", "EOF"}

\* the kinds a token of the output may have
OutputKinds ==
  {"KEYWORD", "BOOL_LITERAL", "RESERVED_WORD", "NOISE_WORD",
   "CHAR_LITERAL", "STRING_LITERAL", "FLOAT_LITERAL", "INTEGER_LITERAL",
   "OP_ARROW", "OP_EQ", "OP_NEQ", "OP_GE", "OP_LE", "OP_AND", "OP_OR",
   "OP_INC", "OP_DEC", "OP_ADD_ASS", "OP_SUB_ASS", "OP_MUL_ASS",
   "OP_DIV_ASS", "OP_MOD_ASS", "OP_SHL", "OP_SHR",
   "OP_BIT_AND", "OP_BIT_OR", "OP_BIT_XOR", "OP_BIT_NOT",
   "SYMBOL", "ID_VAR_FUNC", "ID_VAR_TYPE", "ID_VAR", "INVALID", "EOF"}

\* the kinds of the tokens of a list, in order
kinds_of(toks) == [k \in 1..Len(toks) |-> toks[k].type]

\* C11: every token of the list, at every point of a run, has a kind of the
\* closed output set; no scanner category (WORD, ERR_*, UNTERM_STRING,
\* MISMATCH, NEWLINE, SKIP, COMMENT_*) is the kind of a token.
C11_KindsAreOutputKinds ==
  /\ \A l \in Lexers :
       \A k \in 1..Len(tokens[l]) : tokens[l][k].type \in OutputKinds
  /\ \A i \in 1..Len(rules) :
       LET it == match_iteration(Match(rules[i], <<"x">>, 1, 2), 1, None)
       IN \A k \in 1..Len(it.tokens) : it.tokens[k].type \in OutputKinds

\* a run over a keyword, an illegal character and a number has returned
C11_Witness ==
  /\ pc[1] = "done"
  /\ source_code[1] = <<"i","n","t", " ", "@", " ", "1">>
  /\ kinds_of(tokens[1]) = <<"KEYWORD", "INVALID", "INTEGER_LITERAL", "EOF">>

\* the concatenation of a sequence of lexemes
RECURSIVE Flatten(_)
Flatten(seqs) == IF seqs = <<>> THEN <<>> ELSE Head(seqs) \o Flatten(Tail(seqs))

\* C12: the lexemes of the matches of a run, in order, are each non-empty
\* and concatenate to the part of the buffer scanned so far, and to the whole
\* buffer when the run has returned.
C12_MatchesPartitionBuffer ==
  \A l \in Lexers :
    pc[l] \in {"scan", "done"} =>
      /\ \A k \in 1..Len(matched[l]) : matched[l][k] # <<>>
      /\ Flatten(matched[l]) = Slice(source_code[l], 1, pos[l])
      /\ pc[l] = "done" => Flatten(matched[l]) = source_code[l]

\* a run over a keyword, a newline and an unterminated comment has returned:
\* three matches, two of them tokens
C12_Witness ==
  /\ pc[1] = "done"
  /\ matched[1] = <<<<"i","n","t">>, <<"\n">>, <<"/","*">>>>
  /\ kinds_of(tokens[1]) = <<"KEYWORD", "INVALID", "EOF">>

\* a step that is one iteration of the loop of lexer l
match_step(l) == pc[l] = "scan" /\ pc'[l] = "scan" /\ iters'[l] = iters[l] + 1

\* the step appends one token to the list of lexer l
emits(l) == Len(tokens'[l]) = Len(tokens[l]) + 1

\* the token the step appends
emitted(l) == tokens'[l][Len(tokens'[l])]

\* the lexeme is a full match of the WORD rule
is_word(value) == value # <<>> /\ M_WORD(value, 1) = Len(value)

\* C13: an iteration that emits a KEYWORD sets last_keyword to its lexeme;
\* one that emits a NOISE_WORD leaves last_keyword as it was; one that emits
\* any other token of the classifier (an identifier kind, a boolean or null
\* literal, a rejected word) or a well-formed non-word token sets it to none.
C13_ContextUpdate ==
  [][\A l \in Lexers :
       (match_step(l) /\ emits(l)) =>
         /\ emitted(l).type = "KEYWORD" => last_keyword'[l] = emitted(l).value
         /\ emitted(l).type = "NOISE_WORD" => last_keyword'[l] = last_keyword[l]
         /\ emitted(l).type \notin {"KEYWORD", "NOISE_WORD", "INVALID"} =>
              last_keyword'[l] = None
         /\ (emitted(l).type = "INVALID" /\ is_word(emitted(l).value)) =>
              last_keyword'[l] = None]_vars

\* a noise word has been accepted after its keyword and the keyword is still
\* the context of the word that follows
C13_Witness ==
  /\ pc[1] = "scan"
  /\ kinds_of(tokens[1]) = <<"KEYWORD", "NOISE_WORD">>
  /\ tokens[1][2].value = <<"i","s">>
  /\ last_keyword[1] = <<"t","y","p","e">>
  /\ pos[1] <= Len(source_code[1])

\* C14: an iteration that emits an INVALID token made by the scanner (its
\* lexeme is not a word) sets last_keyword to none.
C14_ScannerInvalidClearsContext ==
  [][\A l \in Lexers :
       (/\ match_step(l) /\ emits(l)
        /\ emitted(l).type = "INVALID" /\ ~is_word(emitted(l).value)) =>
         last_keyword'[l] = None]_vars

\* an iteration of lexer l whose match is a word
word_step(l) ==
  match_step(l) /\ master_regex(source_code[l], pos[l]).kind = "WORD"

\* the word of that match
the_word(l) == master_regex(source_code[l], pos[l]).value

\* the diagnostics the step appends
new_errors(l) == SubSeq(errors'[l], Len(errors[l]) + 1, Len(errors'[l]))

\* the step emits the word with the given kind and no diagnostic
accepted_as(l, kind) ==
  /\ emits(l)
  /\ emitted(l) = Token(kind, the_word(l), line_number[l])
  /\ new_errors(l) = <<>>

\* the step emits the word as INVALID with one diagnostic, the given one
rejected_with(l, text, args) ==
  /\ emits(l)
  /\ emitted(l) = Token("INVALID", the_word(l), line_number[l])
  /\ new_errors(l) = <<Error(line_number[l], Msg(text, args))>>

\* C15: a keyword met with last_keyword func, struct, type or a primitive
\* type is KEYWORD exactly when it is main after func or requires, ensures or
\* invariant after a primitive type, and INVALID with the one "keywords
\* cannot be used as names" diagnostic otherwise; a keyword met with any
\* other last_keyword, or none, is KEYWORD.
C15_StrictPredecessorGuard ==
  [][\A l \in Lexers :
       (word_step(l) /\ the_word(l) \in keywords) =>
         IF last_keyword[l] \in
              {<<"f","u","n","c">>, <<"s","t","r","u","c","t">>, <<"t","y","p","e">>,
               <<"i","n","t">>, <<"c","h","a","r">>, <<"b","o","o","l">>,
               <<"d","o","u","b","l","e">>, <<"f","l","o","a","t">>,
               <<"s","t","r","i","n","g">>}
         THEN IF \/ /\ last_keyword[l] = <<"f","u","n","c">>
                    /\ the_word(l) = <<"m","a","i","n">>
                 \/ /\ last_keyword[l] \notin
                         {<<"f","u","n","c">>, <<"s","t","r","u","c","t">>,
                          <<"t","y","p","e">>}
                    /\ the_word(l) \in
                         {<<"r","e","q","u","i","r","e","s">>,
                          <<"e","n","s","u","r","e","s">>,
                          <<"i","n","v","a","r","i","a","n","t">>}
              THEN accepted_as(l, "KEYWORD")
              ELSE rejected_with(l,
                     "Invalid identifier '{0}'. Keywords cannot be used as variable or function names.",
                     <<the_word(l)>>)
         ELSE accepted_as(l, "KEYWORD")]_vars

\* func after func is rejected and main after the rejected word is a keyword
C15_Witness ==
  /\ pc[1] = "done"
  /\ source_code[1] = <<"f","u","n","c", " ", "f","u","n","c", " ", "m","a","i","n">>
  /\ kinds_of(tokens[1]) = <<"KEYWORD", "INVALID", "KEYWORD", "EOF">>
  /\ Len(errors[1]) = 1

\* C16: a noise word is NOISE_WORD exactly when it is the noise word of the
\* current last_keyword (that of requires, the of ensures, is of type), and
\* INVALID with one diagnostic with any other last_keyword or none.
C16_NoiseWordContext ==
  [][\A l \in Lexers :
       (/\ word_step(l)
        /\ the_word(l) \in {<<"t","h","a","t">>, <<"t","h","e">>, <<"i","s">>}) =>
         IF \/ /\ last_keyword[l] = <<"r","e","q","u","i","r","e","s">>
               /\ the_word(l) = <<"t","h","a","t">>
            \/ /\ last_keyword[l] = <<"e","n","s","u","r","e","s">>
               /\ the_word(l) = <<"t","h","e">>
            \/ /\ last_keyword[l] = <<"t","y","p","e">>
               /\ the_word(l) = <<"i","s">>
         THEN accepted_as(l, "NOISE_WORD")
         ELSE rejected_with(l,
                "Invalid noise word use. '{0}' is not valid after '{1}'.",
                <<the_word(l), last_keyword[l]>>)]_vars

\* is is accepted after type, and that, met after it in the same context,
\* is rejected
C16_Witness ==
  /\ pc[1] = "done"
  /\ source_code[1] = <<"t","y","p","e", " ", "i","s", " ", "t","h","a","t">>
  /\ kinds_of(tokens[1]) = <<"KEYWORD", "NOISE_WORD", "INVALID", "EOF">>
  /\ Len(errors[1]) = 1

\* C17: function, elseif and print are INVALID, with the one diagnostic that
\* names the correct spelling, whatever last_keyword is.
C17_RejectionList ==
  [][\A l \in Lexers :
       word_step(l) =>
         /\ the_word(l) = <<"f","u","n","c","t","i","o","n">> =>
              rejected_with(l, "Invalid keyword. Use 'func'.", <<>>)
         /\ the_word(l) = <<"e","l","s","e","i","f">> =>
              rejected_with(l, "Invalid keyword. Use 'else if'.", <<>>)
         /\ the_word(l) = <<"p","r","i","n","t">> =>
              rejected_with(l, "Invalid keyword. Use 'display'.", <<>>)]_vars

\* elseif has been rejected directly after type
C17_Witness ==
  /\ pc[1] = "done"
  /\ source_code[1] = <<"t","y","p","e", " ", "e","l","s","e","i","f">>
  /\ kinds_of(tokens[1]) = <<"KEYWORD", "INVALID", "EOF">>
  /\ errors[1] = <<Error(1, Msg("Invalid keyword. Use 'else if'.", <<>>))>>

\* the words some earlier rule of the classifier decides: keywords, the
\* boolean and null literals, noise words
vocabulary_or_noise == keywords \cup reserved_words \cup bool_literals \cup noise_words

\* the step rejects the word with one "did you mean" diagnostic
rejected_as_typo(l) ==
  /\ emits(l)
  /\ emitted(l) = Token("INVALID", the_word(l), line_number[l])
  /\ Len(new_errors(l)) = 1
  /\ new_errors(l)[1].message.text \in
       {"Invalid lexeme '{0}'. Did you mean '{1}'?",
        "Keywords are case-sensitive. Did you mean '{0}'?"}

\* C18: a word that is not on the rejection list, not a keyword, literal or
\* noise word, and that is close to a word of the vocabulary, is INVALID with
\* one "did you mean" diagnostic whatever last_keyword is, also after func,
\* type, struct or a primitive type.
C18_TypoBeforeIdentifier ==
  [][\A l \in Lexers :
       (/\ word_step(l)
        /\ the_word(l) \notin invalid_keywords
        /\ the_word(l) \notin vocabulary_or_noise
        /\ close_matches(the_word(l), all_reserved) # {}) =>
         rejected_as_typo(l)]_vars

\* C18 as stated: every word that is not a keyword, literal or noise word
\* and is close to a word of the vocabulary gets a "did you mean" diagnostic.
C18_TypoAnyWord ==
  [][\A l \in Lexers :
       (/\ word_step(l)
        /\ the_word(l) \notin vocabulary_or_noise
        /\ close_matches(the_word(l), all_reserved) # {}) =>
         rejected_as_typo(l)]_vars

\* whle has been rejected as a misspelling of while directly after int
C18_Witness ==
  /\ pc[1] = "done"
  /\ source_code[1] = <<"i","n","t", " ", "w","h","l","e">>
  /\ kinds_of(tokens[1]) = <<"KEYWORD", "INVALID", "EOF">>
  /\ errors[1] =
       <<Error(1, Msg("Invalid lexeme '{0}'. Did you mean '{1}'?",
                      <<<<"w","h","l","e">>, <<"w","h","i","l","e">>>>))>>

\* C19: a word of one or two letters that is not a reserved word never gets
\* the "did you mean" diagnostic of the fuzzy typo check.
C19_ShortWordsExempt ==
  [][\A l \in Lexers :
       (/\ word_step(l)
        /\ Len(the_word(l)) <= 2
        /\ the_word(l) \notin vocabulary_or_noise) =>
         \A k \in 1..Len(new_errors(l)) :
           new_errors(l)[k].message.text
             # "Invalid lexeme '{0}'. Did you mean '{1}'?"]_vars

\* C20: a word emitted as ID_VAR with a primitive type as last_keyword
\* starts with a lowercase letter and has no uppercase character.
C20_PrimitiveIdentifier ==
  [][\A l \in Lexers :
       (/\ word_step(l)
        /\ last_keyword[l] \in primitive_types
        /\ emits(l)
        /\ emitted(l).type = "ID_VAR") =>
         /\ the_word(l)[1] \in Lower
         /\ ~any_upper(the_word(l))]_vars

\* the word passes the rejection, literal, keyword, noise and typo checks
\* and reaches the identifier rules
is_identifier(value) ==
  /\ value \notin invalid_keywords
  /\ value \notin vocabulary_or_noise
  /\ lower(value) \notin keywords
  /\ ~(close_matches(value, all_reserved) # {} /\ Len(value) > 1)

\* C21: with last_keyword struct or type (also when a noise word was
\* accepted in between) an identifier is ID_VAR_TYPE exactly when its first
\* character is an uppercase letter and it has no underscore; a first
\* character that is not uppercase and an underscore are each INVALID with
\* their own diagnostic.
C21_TypeIdentifier ==
  [][\A l \in Lexers :
       (/\ word_step(l)
        /\ is_identifier(the_word(l))
        /\ last_keyword[l] \in {<<"s","t","r","u","c","t">>, <<"t","y","p","e">>}) =>
         IF the_word(l)[1] \notin Upper
         THEN rejected_with(l,
                "Invalid Type identifier '{0}'. Must start with Uppercase (PascalCase).",
                <<the_word(l)>>)
         ELSE IF \E i \in 1..Len(the_word(l)) : the_word(l)[i] = "_"
         THEN rejected_with(l,
                "Invalid Type identifier '{0}'. Cannot contain underscores.",
                <<the_word(l)>>)
         ELSE accepted_as(l, "ID_VAR_TYPE")]_vars

\* a type name has been accepted after type and its noise word
C21_Witness ==
  /\ pc[1] = "done"
  /\ source_code[1] = <<"t","y","p","e", " ", "i","s", " ", "X">>
  /\ kinds_of(tokens[1]) = <<"KEYWORD", "NOISE_WORD", "ID_VAR_TYPE", "EOF">>
  /\ errors[1] = <<>>

\* C22: with last_keyword func an identifier is ID_VAR_FUNC exactly when it
\* has no uppercase character, and INVALID with the naming-rule diagnostic
\* otherwise; no word is ID_VAR_FUNC with any other last_keyword.
C22_FunctionIdentifier ==
  [][\A l \in Lexers :
       /\ (/\ word_step(l)
           /\ is_identifier(the_word(l))
           /\ last_keyword[l] = <<"f","u","n","c">>) =>
            IF \E i \in 1..Len(the_word(l)) : the_word(l)[i] \in Upper
            THEN rejected_with(l,
                   "Invalid function identifier '{0}'. Must be snake_case.",
                   <<the_word(l)>>)
            ELSE accepted_as(l, "ID_VAR_FUNC")
       /\ (match_step(l) /\ emits(l) /\ emitted(l).type = "ID_VAR_FUNC") =>
            last_keyword[l] = <<"f","u","n","c">>]_vars

\* a function name with an uppercase letter has been rejected after func
C22_Witness ==
  /\ pc[1] = "done"
  /\ source_code[1] = <<"f","u","n","c", " ", "a","B">>
  /\ kinds_of(tokens[1]) = <<"KEYWORD", "INVALID", "EOF">>
  /\ errors[1] =
       <<Error(1, Msg("Invalid function identifier '{0}'. Must be snake_case.",
                      <<<<"a","B">>>>))>>

\* C23: with last_keyword none, or a keyword other than func, type, struct
\* and the primitive types, an identifier that starts with an uppercase
\* letter is ID_VAR_TYPE when it has no underscore and INVALID with one
\* diagnostic when it has one; any other identifier is ID_VAR.
C23_FallbackIdentifier ==
  [][\A l \in Lexers :
       (/\ word_step(l)
        /\ is_identifier(the_word(l))
        /\ last_keyword[l] \notin
             {<<"f","u","n","c">>, <<"s","t","r","u","c","t">>, <<"t","y","p","e">>,
              <<"i","n","t">>, <<"c","h","a","r">>, <<"b","o","o","l">>,
              <<"d","o","u","b","l","e">>, <<"f","l","o","a","t">>,
              <<"s","t","r","i","n","g">>}) =>
         IF the_word(l)[1] \notin Upper THEN accepted_as(l, "ID_VAR")
         ELSE IF \E i \in 1..Len(the_word(l)) : the_word(l)[i] = "_"
         THEN rejected_with(l,
                "Invalid Type identifier '{0}'. Underscores allowed only in snake_case variables.",
                <<the_word(l)>>)
         ELSE accepted_as(l, "ID_VAR_TYPE")]_vars

\* an uppercase-first name with an underscore has been rejected after a
\* keyword that governs no identifier
C23_Witness ==
  /\ pc[1] = "done"
  /\ source_code[1] = <<"r","e","q","u","i","r","e","s", " ", "A","_","b">>
  /\ kinds_of(tokens[1]) = <<"KEYWORD", "INVALID", "EOF">>
  /\ Len(errors[1]) = 1

\* C24: no STRING_LITERAL token extends over a line break.
C24_NoStringAcrossLines ==
  \A l \in Lexers :
    \A k \in 1..Len(tokens[l]) :
      tokens[l][k].type = "STRING_LITERAL" => count_newlines(tokens[l][k].value) = 0

\* lexer l is at a "/*" that no later "*/" closes
at_unterminated_comment(l) ==
  /\ Lit(source_code[l], pos[l], <<"/", "*">>) = 2
  /\ ~\E q \in (pos[l] + 2)..(Len(source_code[l]) - 1) :
        source_code[l][q] = "*" /\ source_code[l][q + 1] = "/"

\* the rest of the buffer from the scan position of lexer l
rest_of_buffer(l) == Slice(source_code[l], pos[l], Len(source_code[l]) + 1)

\* C25: the iteration at an unterminated block comment consumes the rest of
\* the buffer, adds the newlines of the comment to the line counter, and
\* appends one diagnostic and one INVALID token, which is the last token of
\* the list when the scan ends there.
C25_UnterminatedComment ==
  [][\A l \in Lexers :
       (match_step(l) /\ at_unterminated_comment(l)) =>
         /\ pos'[l] = Len(source_code[l]) + 1
         /\ line_number'[l] = line_number[l] + count_newlines(rest_of_buffer(l))
         /\ new_errors(l) =
              <<Error(line_number[l], Msg("Unterminated multi-line comment", <<>>))>>
         /\ emits(l)
         /\ emitted(l).type = "INVALID"
         /\ emitted(l).value = rest_of_buffer(l)]_vars

\* a run over a name and an unterminated comment of two lines has returned
C25_Witness ==
  /\ pc[1] = "done"
  /\ source_code[1] = <<"X", "/", "*", "\n">>
  /\ kinds_of(tokens[1]) = <<"ID_VAR_TYPE", "INVALID", "EOF">>
  /\ tokens[1][2].value = <<"/", "*", "\n">>
  /\ tokens[1][3].line = 2
  /\ errors[1] = <<Error(1, Msg("Unterminated multi-line comment", <<>>))>>

\* lexer l is at a blank, a line break, a line comment or a closed block
\* comment
at_gap(l) ==
  \/ At(source_code[l], pos[l]) \in {" ", "\t", "\n"}
  \/ Lit(source_code[l], pos[l], <<"/", "/">>) = 2
  \/ Lit(source_code[l], pos[l], <<"/", "*">>) = 2 /\ ~at_unterminated_comment(l)

\* C27: an iteration over whitespace, a line break or a comment appends no
\* token and no diagnostic and leaves last_keyword as it was; so a word
\* separated from a keyword by such matches only is classified as
\* _classify_word classifies it with that keyword as last_keyword.
C27_GapsKeepContext ==
  /\ [][\A l \in Lexers :
          (match_step(l) /\ at_gap(l)) =>
            /\ last_keyword'[l] = last_keyword[l]
            /\ tokens'[l] = tokens[l]
            /\ errors'[l] = errors[l]]_vars
  /\ [](\A l \in Lexers :
          (/\ pc[l] = "done" /\ Len(matched[l]) >= 3
           /\ kinds_of(tokens[l])[1] = "KEYWORD") =>
            /\ Len(tokens[l]) = 3
            /\ tokens[l][2].type =
                 classify_word(tokens[l][2].value, tokens[l][1].value).classification)

\* X, a block comment and a line break away from int, has been rejected by
\* the rule for variables
C27_Witness ==
  /\ pc[1] = "done"
  /\ source_code[1] = <<"i","n","t", "/","*","c","*","/", "\n", "X">>
  /\ kinds_of(tokens[1]) = <<"KEYWORD", "INVALID", "EOF">>
  /\ errors[1] =
       <<Error(2, Msg("Invalid variable identifier '{0}'. Variables must start with a lowercase letter.",
                      <<<<"X">>>>))>>

\* the word that begins at the scan position of lexer l ends before w, and a
\* hyphen and a word character follow it
hyphen_after_word(l, w) ==
  /\ w > pos[l]
  /\ At(source_code[l], pos[l]) \in WordStart
  /\ \A r \in pos[l]..(w - 1) : source_code[l][r] \in WordChar
  /\ At(source_code[l], w) = "-"
  /\ At(source_code[l], w + 1) \in WordChar

\* the span of the word, the hyphen and the word characters after it ends
\* before q
hyphen_span_end(l, w, q) ==
  /\ q > w + 1
  /\ \A r \in (w + 1)..(q - 1) : source_code[l][r] \in WordChar
  /\ At(source_code[l], q) \notin WordChar

\* C30: when the scan stands at a word that is directly followed by a hyphen
\* and a word character, the iteration emits one INVALID token whose lexeme
\* is the word, the hyphen and the run of word characters after it, reports
\* "Hyphens are not allowed" once for that lexeme, resumes after the run, and
\* does not classify the word: last_keyword stays as it was.
C30_HyphenatedWord ==
  [][\A l \in Lexers : \A w, q \in 1..(Len(source_code[l]) + 1) :
       (match_step(l) /\ hyphen_after_word(l, w) /\ hyphen_span_end(l, w, q)) =>
         /\ emits(l)
         /\ emitted(l) = Token("INVALID", Slice(source_code[l], pos[l], q), line_number[l])
         /\ new_errors(l) =
              <<Error(line_number[l],
                      Msg("Invalid identifier '{0}'. Hyphens are not allowed.",
                          <<Slice(source_code[l], pos[l], q)>>))>>
         /\ pos'[l] = q
         /\ last_keyword'[l] = last_keyword[l]]_vars

\* `int-x` has been emitted as one INVALID token and the keyword int was never
\* made the context
C30_Witness ==
  /\ pc[1] = "done"
  /\ source_code[1] = <<"i","n","t","-","x">>
  /\ tokens[1] = <<Token("INVALID", <<"i","n","t","-","x">>, 1), EOF_token(1)>>
  /\ Len(errors[1]) = 1
  /\ last_keyword[1] = None

\* the last handler was run_lexer and its try block raised
run_lexer_raised == last_call.handler = "run_lexer" /\ last_call.raised # ""

\* the last line of the console
last_logged == console_output[Len(console_output)]

\* C26: when the try block of run_lexer has raised, in tokenize() or after the
\* result was stored, the handler has returned with the displayed list and
\* the stored list of the active tab empty and with the console ending in
\* the CRITICAL ERROR line, tagged as an error.
C26_ExceptionResetsResult ==
  run_lexer_raised =>
    /\ current_tokens = <<>>
    /\ tabs[mapped].tokens = <<>>
    /\ console_output # <<>>
    /\ last_logged.type = "error"
    /\ last_logged.message.text = "CRITICAL ERROR: {0}"

\* a run on `@` raised after its two tokens had been stored for the tab
C26_Witness ==
  /\ run_lexer_raised
  /\ last_call.raised = "render_tokens"
  /\ tabs[mapped].editor = <<"@">>
  /\ tabs[mapped].tokens = <<>>

\* C28: the displayed list is the list stored for the tab whose editor is
\* shown, in every state of the window, and run_lexer leaves the list of
\* every other tab as it was.
C28_DisplayedIsStored ==
  /\ [](mapped \in DOMAIN tabs /\ current_tokens = tabs[mapped].tokens)
  /\ [][last_call'.handler = "run_lexer" =>
          \A t \in DOMAIN tabs \ {mapped} :
            t \in DOMAIN tabs' /\ tabs'[t].tokens = tabs[t].tokens]_vars

\* tab 1 has been switched to after the run on tab 2: its own tokens are
\* shown while tab 2 holds another list
C28_Witness ==
  /\ last_call.handler = "other"
  /\ mapped = 1
  /\ 2 \in DOMAIN tabs
  /\ tabs[1].tokens # <<>>
  /\ tabs[2].tokens # <<>>
  /\ tabs[1].tokens # tabs[2].tokens
  /\ current_tokens = tabs[1].tokens

\* the position of the first character of the text that is not whitespace
first_lexeme_at(text) == RunEnd(text, 1, Whitespace)

\* C29: after run_lexer on an editor whose first lexeme is a word, a number
\* or `@`, the first stored token carries the line of that lexeme in the
\* editor, also when blank lines stand before it.
C29_LinesAreEditorLines ==
  (/\ last_call = [handler |-> "run_lexer", raised |-> ""]
   /\ At(tabs[mapped].editor, first_lexeme_at(tabs[mapped].editor))
        \in WordChar \cup {"@"}) =>
    /\ tabs[mapped].tokens # <<>>
    /\ tabs[mapped].tokens[1].line =
         line_of(tabs[mapped].editor, first_lexeme_at(tabs[mapped].editor))

=============================================================================
